---- MODULE Spec2Model ----
(***************************************************************************)
(* A model of parts of the runtime:                                        *)
(*   - the guest's outbound HTTP call with its read-through cache          *)
(*     (crates/wasi-http/src/guest/outgoing.rs, handle),                   *)
(*   - the host's outbound transport                                       *)
(*     (crates/wasi-http/src/host/default_impl.rs, send_request),          *)
(*   - the generated messaging dispatcher                                  *)
(*     (crates/guest-macro/src/messaging.rs, expand),                      *)
(*   - the guest's request builder                                         *)
(*     (crates/warp-sdk/src/api/request.rs, RequestHandler),               *)
(*   - the check of required environment variables                         *)
(*     (crates/warp-sdk/src/lib.rs, ensure_env!),                          *)
(*   - the start of the runtime: backends, State and Server hosts          *)
(*     (crates/qwasr/src/traits.rs and the entry procedure of runtime!),   *)
(*   - the guest side of Publisher::send                                   *)
(*     (crates/warp-sdk/src/capabilities.rs),                              *)
(*   - the initialisation of telemetry in the guest                        *)
(*     (crates/wasi-otel/src/guest/init.rs, init),                         *)
(*   - the reading of a column of a row                                    *)
(*     (crates/wasi-sql/src/guest/orm/entity.rs, FetchValue),              *)
(*   - the conversion of a Filter to an expression                         *)
(*     (crates/wasi-sql/src/guest/orm/filter.rs, into_expr).               *)
(* Each part has its own specification over the shared variables; the      *)
(* variables of the other parts stay at their initial value.               *)
(***************************************************************************)
EXTENDS Integers, Sequences, FiniteSets, TLC

VARIABLES
    pc,         \* outgoing.rs: where each call of handle() is suspended
    request,    \* outgoing.rs: the http::Request given to each call
    response,   \* outgoing.rs: parts + body_buf of each call
    rem,        \* bytes of the upstream body the stream has not delivered yet
    result,     \* what each call of handle() returned
    stats,      \* history: per call, its cache lookups, upstream fetches and cache
                \* writes, and the call whose entry its lookup found (0: none)
    kv,         \* the key-value bucket behind the cache, by fingerprint
    hostIn,     \* default_impl.rs: the input of send_request and what its
                \* environment does with it
    hostOut,    \* default_impl.rs: what send_request returned for it
    declared,   \* messaging.rs: the topics of the guest! configuration
    generated,  \* messaging.rs: the dispatcher module expand() emitted
    inbound,    \* messaging.rs: the last message given to the dispatcher
    invoked,    \* messaging.rs: the per-pattern handlers it invoked, in order
    outcome,    \* messaging.rs: what the dispatcher returned
    builder,    \* request.rs: the builder value the caller holds
    calls,      \* request.rs: the calls made on it so far, each with its argument
                \* and the builder it was made on
    handled,    \* request.rs: the calls of Handler::handle, each with its Context
    reply,      \* request.rs: what the caller got back
    env,        \* lib.rs: the environment of the process, by variable name
    listed,     \* lib.rs: the literals given to ensure_env!, in order
    ensured,    \* lib.rs: how ensure_env! ended
    config,     \* runtime!: the configured hosts, in order, each with its backend
    backend,    \* traits.rs: per host, where the connect() of its backend is
    state,      \* runtime!: whether the State has been created
    server,     \* traits.rs: per host, where its Server::run is
    entry,      \* runtime!: where the entry procedure is, and what it returned
    sends,      \* capabilities.rs: the calls of Publisher::send, with their result
    broker,     \* capabilities.rs: what the broker was handed, in order
    TRACING,    \* init.rs: the OnceLock of the tracer provider
    METRICS,    \* init.rs: the OnceLock of the meter provider
    subscriber, \* init.rs: the global default subscriber of the process
    initPc,     \* init.rs: where each thread is in its call of init()
    initLog,    \* init.rs: the calls of init() that returned, in order
    row,        \* entity.rs: the row a value is fetched from
    fetchCall,  \* entity.rs: the type and the column of the fetch
    fetched,    \* entity.rs: what fetch returned
    filter,     \* filter.rs: the Filter to convert
    expr        \* filter.rs: the expression into_expr returned

cacheVars == <<pc, request, response, rem, result, stats, kv>>
hostVars == <<hostIn, hostOut>>
msgVars == <<declared, generated, inbound, invoked, outcome>>
grbVars == <<builder, calls, handled, reply>>
envVars == <<env, listed, ensured>>
rtVars == <<config, backend, state, server, entry>>
pubVars == <<sends, broker>>
otelVars == <<TRACING, METRICS, subscriber, initPc, initLog>>
fetchVars == <<row, fetchCall, fetched>>
filterVars == <<filter, expr>>
vars == <<pc, request, response, rem, result, stats, kv, hostIn, hostOut,
          declared, generated, inbound, invoked, outcome,
          builder, calls, handled, reply, env, listed, ensured,
          config, backend, state, server, entry,
          sends, broker, TRACING, METRICS, subscriber, initPc, initLog,
          row, fetchCall, fetched, filter, expr>>

\* What a step of one part leaves alone.
notCacheVars == <<hostVars, msgVars, grbVars, envVars, rtVars,
                  pubVars, otelVars, fetchVars, filterVars>>
notHostVars == <<cacheVars, msgVars, grbVars, envVars, rtVars,
                 pubVars, otelVars, fetchVars, filterVars>>
notMsgVars == <<cacheVars, hostVars, grbVars, envVars, rtVars,
                pubVars, otelVars, fetchVars, filterVars>>
notGrbVars == <<cacheVars, hostVars, msgVars, envVars, rtVars,
                pubVars, otelVars, fetchVars, filterVars>>
notEnvVars == <<cacheVars, hostVars, msgVars, grbVars, rtVars,
                pubVars, otelVars, fetchVars, filterVars>>
notRtVars == <<cacheVars, hostVars, msgVars, grbVars, envVars,
               pubVars, otelVars, fetchVars, filterVars>>
notPubVars == <<cacheVars, hostVars, msgVars, grbVars, envVars, rtVars,
                otelVars, fetchVars, filterVars>>
notOtelVars == <<cacheVars, hostVars, msgVars, grbVars, envVars, rtVars,
                 pubVars, fetchVars, filterVars>>
notFetchVars == <<cacheVars, hostVars, msgVars, grbVars, envVars, rtVars,
                  pubVars, otelVars, filterVars>>
notFilterVars == <<cacheVars, hostVars, msgVars, grbVars, envVars, rtVars,
                   pubVars, otelVars, fetchVars>>

----------------------------------------------------------------------------
(* Bounds *)

NumCalls == 2
MaxChunks == 2

Calls == 1..NumCalls

----------------------------------------------------------------------------
(* Outbound HTTP call: outgoing.rs *)

CHUNK_SIZE == 1024

\* A read that fills less than the buffer.
ShortRead == CHUNK_SIZE \div 2

Fingerprints == {"f1", "f2"}
Directives == {"absent", "max-age", "invalid"}
Requests == [fp : Fingerprints, directive : Directives]

\* What the upstream may answer: an etag of its own or none, and a body length.
UpstreamEtags == {"none", "upstream"}
BodyLens == {k * ShortRead : k \in 0..(2 * MaxChunks)}
ReadSizes == {ShortRead, CHUNK_SIZE}

NoRequest == [fp |-> "none", directive |-> "absent"]
NoResponse == [status |-> 0, etag |-> "none", body |-> 0, len |-> 0, hit |-> FALSE]
Pending == [kind |-> "pending", err |-> "none", resp |-> NoResponse]
NoEntry == [present |-> FALSE, resp |-> NoResponse, writer |-> 0]
NoStats == [lookups |-> 0, fetches |-> 0, puts |-> 0, saw |-> 0]

Ok(resp) == [kind |-> "ok", err |-> "none", resp |-> resp]
Err(what) == [kind |-> "err", err |-> what, resp |-> NoResponse]
Dropped == [kind |-> "dropped", err |-> "none", resp |-> NoResponse]

\* Cache::maybe_from: None without a cache directive, an error for a directive
\* that cannot be read, else a cache keyed by the request's fingerprint.
maybe_from(req) ==
    CASE req.directive = "absent" -> [tag |-> "none", fp |-> "none"]
      [] req.directive = "invalid" -> [tag |-> "err", fp |-> "none"]
      [] OTHER -> [tag |-> "some", fp |-> req.fp]

\* cache.etag(): the fingerprint.
CacheEtag(cache) == cache.fp

\* cache.get(): the entry under the fingerprint, with the cache-hit marker.
CacheGet(bucket, cache) ==
    IF bucket[cache.fp].present
    THEN [tag |-> "some", resp |-> [bucket[cache.fp].resp EXCEPT !.hit = TRUE]]
    ELSE [tag |-> "none", resp |-> NoResponse]

\* cache.put(&response): the response is stored under the fingerprint.
CachePut(bucket, cache, resp, c) ==
    [bucket EXCEPT ![cache.fp] = [present |-> TRUE, resp |-> resp, writer |-> c]]

Bump(c, field) == [stats EXCEPT ![c][field] = @ + 1]

\* handle() returns: the call is over and its locals (parts, body_buf, the body
\* stream) are gone.
Return(c, res) ==
    /\ pc' = [pc EXCEPT ![c] = "done"]
    /\ result' = [result EXCEPT ![c] = res]
    /\ response' = [response EXCEPT ![c] = NoResponse]
    /\ rem' = [rem EXCEPT ![c] = 0]

\* The call suspends at an await.
Await(c, at) ==
    /\ pc' = [pc EXCEPT ![c] = at]
    /\ UNCHANGED result

\* Lines 39-42: the request is converted and handed to the proxy, where the
\* call waits for the upstream's answer.
Forward(c, convertible, st) ==
    IF convertible
    THEN /\ Await(c, "fetch")
         /\ stats' = [st EXCEPT ![c].fetches = @ + 1]
         /\ UNCHANGED <<response, rem>>
    ELSE /\ Return(c, Err("Issue converting request"))
         /\ stats' = st

\* Lines 23-43 up to the first await: the cache directive is read; with one the
\* call waits on cache.get(), without one the request goes straight upstream.
Call(c, req, convertible) ==
    /\ pc[c] = "idle"
    \* the calls are numbered in the order in which they are made
    /\ IF c = 1 THEN TRUE ELSE pc[c - 1] # "idle"
    /\ request' = [request EXCEPT ![c] = req]
    /\ LET maybe_cache == maybe_from(req) IN
         CASE maybe_cache.tag = "err" ->
                /\ Return(c, Err("cache directive"))
                /\ UNCHANGED stats
           [] maybe_cache.tag = "some" ->
                /\ Await(c, "get")
                /\ stats' = Bump(c, "lookups")
                /\ UNCHANGED <<response, rem>>
           [] OTHER -> Forward(c, convertible, stats)
    /\ UNCHANGED kv

\* A hit that is not returned.
OnLookupIgnoreHit(got) == "forward"

\* Lines 32-37: what the call does with the answer of cache.get().
OnLookup(got) == IF got.tag = "some" THEN "return" ELSE "forward"

\* Lines 32-43: cache.get() completes. Its error is returned with `?`; a hit is
\* returned as it is; a miss forwards the request.
GetDone(c, backend_ok, convertible) ==
    /\ pc[c] = "get"
    /\ LET cache == maybe_from(request[c])
           got == CacheGet(kv, cache)
           seen == [stats EXCEPT ![c].saw = kv[cache.fp].writer]
       IN IF ~backend_ok
          THEN /\ Return(c, Err("cache get"))
               /\ UNCHANGED stats
          ELSE IF OnLookup(got) = "return"
          THEN /\ Return(c, Ok(got.resp))
               /\ stats' = seen
          ELSE Forward(c, convertible, seen)
    /\ UNCHANGED <<request, kv>>

\* A failed fetch that is tried once more.
FetchDoneRetry(c, answer, up) ==
    /\ pc[c] = "fetch"
    /\ IF answer = "error" /\ stats[c].fetches < 2
       THEN /\ stats' = Bump(c, "fetches")
            /\ UNCHANGED <<pc, result, response, rem>>
       ELSE /\ CASE answer = "error" -> Return(c, Err("Issue calling proxy"))
                 [] answer = "unconvertible" ->
                      Return(c, Err("Issue converting response"))
                 [] OTHER ->
                      /\ response' = [response EXCEPT ![c] =
                            [status |-> up.status, etag |-> up.etag, body |-> 0,
                             len |-> up.len, hit |-> FALSE]]
                      /\ rem' = [rem EXCEPT ![c] = up.len]
                      /\ Await(c, "read")
            /\ UNCHANGED stats
    /\ UNCHANGED <<request, kv>>

\* Lines 42-59: the proxy answers. A transport error or a response that cannot
\* be converted is returned; otherwise the body stream is opened.
FetchDone(c, answer, up) ==
    /\ pc[c] = "fetch"
    /\ CASE answer = "error" -> Return(c, Err("Issue calling proxy"))
         [] answer = "unconvertible" -> Return(c, Err("Issue converting response"))
         [] OTHER ->
              /\ response' = [response EXCEPT ![c] =
                    [status |-> up.status, etag |-> up.etag, body |-> 0,
                     len |-> up.len, hit |-> FALSE]]
              /\ rem' = [rem EXCEPT ![c] = up.len]
              /\ Await(c, "read")
    /\ UNCHANGED <<request, stats, kv>>

\* An ETag inserted whether or not the request asked for caching.
InsertEtagAlways(maybe_cache, resp) == [resp EXCEPT !.etag = "fingerprint"]

\* An ETag inserted only where the upstream sent none.
InsertEtagIfMissing(maybe_cache, resp) ==
    IF maybe_cache.tag = "some" /\ resp.etag = "none"
    THEN [resp EXCEPT !.etag = CacheEtag(maybe_cache)]
    ELSE resp

\* Line 80: with a cache the ETag header is replaced by cache.etag().
InsertEtag(maybe_cache, resp) ==
    IF maybe_cache.tag = "some"
    THEN [resp EXCEPT !.etag = CacheEtag(maybe_cache)]
    ELSE resp

\* Lines 76-87 up to the await of cache.put(): the response is assembled; with a
\* cache the call waits on cache.put(), without one it returns the response.
Assemble(c, resp) ==
    LET maybe_cache == maybe_from(request[c])
        final == InsertEtag(maybe_cache, resp)
    IN IF maybe_cache.tag = "some"
       THEN /\ response' = [response EXCEPT ![c] = final]
            /\ rem' = [rem EXCEPT ![c] = 0]
            /\ Await(c, "put")
       ELSE Return(c, Ok(final))

\* Lines 66-72: does the read loop go round again?
ReadsOn(result_kind, size) == result_kind = "complete" /\ ~(size < CHUNK_SIZE)

\* Lines 61-73: one stream.read(). The stream delivers up to a buffer of what
\* the upstream still has, or reports that it was dropped (at the end of the body
\* or before it) or that the read was cancelled.
ReadBody(c, result_kind, size) ==
    /\ pc[c] = "read"
    /\ IF result_kind = "complete"
       THEN 0 < size /\ size <= rem[c] /\ size <= CHUNK_SIZE
       ELSE size = 0
    /\ LET resp == [response[c] EXCEPT !.body = @ + size]
       IN IF ReadsOn(result_kind, size)
          THEN /\ response' = [response EXCEPT ![c] = resp]
               /\ rem' = [rem EXCEPT ![c] = @ - size]
               /\ UNCHANGED <<pc, result>>
          ELSE Assemble(c, resp)
    /\ UNCHANGED <<request, stats, kv>>

\* Lines 81-87: cache.put() completes. Its error is returned with `?`;
\* otherwise the response is in the cache and is returned.
PutDone(c, backend_ok) ==
    /\ pc[c] = "put"
    /\ IF backend_ok
       THEN /\ kv' = CachePut(kv, maybe_from(request[c]), response[c], c)
            /\ stats' = Bump(c, "puts")
            /\ Return(c, Ok(response[c]))
       ELSE /\ Return(c, Err("cache put"))
            /\ UNCHANGED <<kv, stats>>
    /\ UNCHANGED request

\* The caller drops the future of handle() at one of its awaits. A put that was
\* already with the backend may still land.
DropFuture(c, landed) ==
    /\ pc[c] \in {"get", "fetch", "read", "put"}
    /\ Return(c, Dropped)
    /\ IF pc[c] = "put" /\ landed
       THEN /\ kv' = CachePut(kv, maybe_from(request[c]), response[c], c)
            /\ stats' = Bump(c, "puts")
       ELSE UNCHANGED <<kv, stats>>
    /\ UNCHANGED request

\* The backend evicts an entry whose freshness window is over.
Expire(fp) ==
    /\ kv[fp].present
    /\ kv' = [kv EXCEPT ![fp] = NoEntry]
    /\ UNCHANGED <<pc, request, response, rem, result, stats>>

Statuses == {200}
UpstreamResponses == [status : Statuses, etag : UpstreamEtags, len : BodyLens]

\* Upstream answers whose body fits one short read.
OneReadResponses == {up \in UpstreamResponses : up.len = ShortRead}

CacheInit ==
    /\ pc = [c \in Calls |-> "idle"]
    /\ request = [c \in Calls |-> NoRequest]
    /\ response = [c \in Calls |-> NoResponse]
    /\ rem = [c \in Calls |-> 0]
    /\ result = [c \in Calls |-> Pending]
    /\ stats = [c \in Calls |-> NoStats]
    /\ kv = [fp \in Fingerprints |-> NoEntry]

----------------------------------------------------------------------------
(* Host transport: default_impl.rs *)

\* The six names the http crate has constants for.
StandardForbiddenHeaders ==
    <<"connection", "host", "proxy-authenticate", "proxy-authorization",
      "transfer-encoding", "upgrade">>

FORBIDDEN_HEADERS ==
    <<"connection", "host", "proxy-authenticate", "proxy-authorization",
      "transfer-encoding", "upgrade", "keep-alive", "proxy-connection",
      "http2-settings">>

MaxRequestHeaders == 1
MaxHeaders == 2

RECURSIVE SeqsUpTo(_, _)
\* The sequences over S of length at most n.
SeqsUpTo(S, n) ==
    IF n = 0 THEN {<<>>}
    ELSE LET shorter == SeqsUpTo(S, n - 1)
         IN shorter \cup {Append(q, x) : q \in shorter, x \in S}

\* Header maps are ordered lists of <<name, value>>; a name may repeat.
CertValues == {"pem", "not-text", "not-base64", "not-pem"}
RequestHeaders ==
    SeqsUpTo({<<"client-cert", v>> : v \in CertValues} \cup {<<"accept", "x">>},
             MaxRequestHeaders)
\* The headers an upstream may send: hop-by-hop ones and a content type.
HopByHopNames ==
    {"connection", "host", "proxy-authenticate", "proxy-authorization",
     "transfer-encoding", "upgrade", "keep-alive", "proxy-connection",
     "http2-settings"}
ResponseHeaders ==
    SeqsUpTo({<<n, "x">> : n \in HopByHopNames}
             \cup {<<"content-type", v>> : v \in {"x", "y"}},
             MaxHeaders)

\* What reqwest may report: is_timeout, is_connect, is_request.
ReqwestErrors == [timeout : BOOLEAN, connect : BOOLEAN, request : BOOLEAN]
HostResponses == [status : {200, 502}, headers : ResponseHeaders, body : {"body"}]

NoHostResponse == [status |-> 0, headers |-> <<>>, body |-> "none"]
HostPending ==
    [kind |-> "pending", code |-> "none", msg |-> "none", resp |-> NoHostResponse,
     sent |-> FALSE, upstream |-> <<>>]
HostOk(resp, upstream) ==
    [kind |-> "ok", code |-> "none", msg |-> "none", resp |-> resp,
     sent |-> TRUE, upstream |-> upstream]
HostErr(code, sent, upstream) ==
    [kind |-> "err", code |-> code.code, msg |-> code.msg, resp |-> NoHostResponse,
     sent |-> sent, upstream |-> upstream]

\* A remove that leaves the header where it is.
HeaderKept(headers, name) == headers

\* HeaderMap::remove: every value under the name goes.
HeaderRemove(headers, name) == SelectSeq(headers, LAMBDA h : h[1] # name)

\* The first value under the name, as HeaderMap::remove returns it.
HeaderFirst(headers, name) ==
    LET at == {i \in DOMAIN headers : headers[i][1] = name}
    IN IF at = {} THEN "absent"
       ELSE headers[CHOOSE i \in at : \A j \in at : i <= j][2]

internal_error(e) == [code |-> "internal-error", msg |-> e]

\* A classification that asks for a connect failure first.
ReqwestErrorConnectFirst(e) ==
    IF e.connect THEN [code |-> "connection-refused", msg |-> "none"]
    ELSE IF e.timeout THEN [code |-> "connection-timeout", msg |-> "none"]
    ELSE IF e.request THEN [code |-> "http-request-uri-invalid", msg |-> "none"]
    ELSE internal_error("reqwest")

reqwest_error(e) ==
    IF e.timeout THEN [code |-> "connection-timeout", msg |-> "none"]
    ELSE IF e.connect THEN [code |-> "connection-refused", msg |-> "none"]
    ELSE IF e.request THEN [code |-> "http-request-uri-invalid", msg |-> "none"]
    ELSE internal_error("reqwest")

RECURSIVE StripFrom(_, _)
\* Lines 102-105: the loop over FORBIDDEN_HEADERS, from the i-th on.
StripFrom(headers, i) ==
    IF i > Len(FORBIDDEN_HEADERS) THEN headers
    ELSE StripFrom(HeaderRemove(headers, FORBIDDEN_HEADERS[i]), i + 1)

\* Lines 96-107: the response handed back to the guest.
Filtered(resp) == [resp EXCEPT !.headers = StripFrom(@, 1)]

\* Lines 71-108: send_request, for the request of hostIn (its headers, and
\* whether its body can be collected), a client that builds or not, and the
\* upstream's answer: a failure or a response.
send_request ==
    /\ hostOut.kind = "pending"
    /\ LET cert == HeaderFirst(hostIn.headers, "client-cert")
           headers == HeaderRemove(hostIn.headers, "client-cert")
           answer == hostIn.answer
       IN hostOut' =
            CASE ~hostIn.body_ok -> HostErr(internal_error("body"), FALSE, <<>>)
              [] cert = "not-text" -> HostErr(internal_error("to_str"), FALSE, <<>>)
              [] cert = "not-base64" -> HostErr(internal_error("base64"), FALSE, <<>>)
              [] cert = "not-pem" -> HostErr(internal_error("pem"), FALSE, <<>>)
              [] ~hostIn.build_ok ->
                    HostErr(reqwest_error([timeout |-> FALSE, connect |-> FALSE,
                                           request |-> FALSE]), FALSE, <<>>)
              [] answer \in ReqwestErrors -> HostErr(reqwest_error(answer), TRUE, headers)
              [] OTHER -> HostOk(Filtered(answer), headers)
    /\ UNCHANGED hostIn

HostIdle ==
    /\ hostIn = [headers |-> <<>>, body_ok |-> TRUE, build_ok |-> TRUE,
                 answer |-> NoHostResponse]
    /\ hostOut = HostPending

HostInit ==
    /\ hostIn \in [headers : RequestHeaders, body_ok : BOOLEAN, build_ok : BOOLEAN,
                    answer : ReqwestErrors \cup HostResponses]
    /\ hostOut = HostPending

----------------------------------------------------------------------------
(* Messaging dispatcher: messaging.rs *)

MaxTopics == 2
MaxPatternLen == 1
MaxTopicLen == 2

Chars == {"a", ".", "-"}
IdentChars == {"a"}
Patterns == SeqsUpTo(Chars, MaxPatternLen)
TopicNames == SeqsUpTo(Chars, MaxTopicLen)
Payloads == {<<>>, <<7>>}
Configs == SeqsUpTo(Patterns, MaxTopics) \ {<<>>}

NoTopic == <<"(none)">>
Messages == [some : {TRUE}, topic : TopicNames \cup {NoTopic}, data : Payloads]
NoMessage == [some |-> FALSE, topic |-> NoTopic, data |-> <<>>]
NoModule == [arms |-> <<>>, fns |-> <<>>]
NoOutcome == [kind |-> "pending", msg |-> <<>>]

\* handler_name: a fixed prefix, then the pattern with every character that
\* cannot stand in an identifier replaced by an underscore.
handler_name(pattern) ==
    <<"on_">> \o [i \in DOMAIN pattern |->
                    IF pattern[i] \in IdentChars THEN pattern[i] ELSE "_"]

\* Lines 28-42: Topic::parse.
ParseTopic(pattern) == [pattern |-> pattern, handler |-> handler_name(pattern)]

\* Lines 13-20: Messaging::parse.
ParseMessaging(input) == [i \in DOMAIN input |-> ParseTopic(input[i])]

\* Lines 44-80: expand emits one match arm and one handler function per topic,
\* in declaration order.
expand ==
    /\ generated = NoModule
    /\ LET topics == ParseMessaging(declared)
       IN generated' = [arms |-> topics,
                        fns |-> [i \in DOMAIN topics |-> topics[i].handler]]
    /\ UNCHANGED <<declared, inbound, invoked, outcome>>

\* rustc accepts the module only if no two functions in it share a name.
Compiles(module) ==
    /\ module # NoModule
    /\ \A i, j \in DOMAIN module.fns : module.fns[i] = module.fns[j] => i = j

\* str::contains.
Contains(t, pattern) ==
    \E k \in 0..(Len(t) - Len(pattern)) : SubSeq(t, k + 1, k + Len(pattern)) = pattern

RECURSIVE MatchArmLast(_, _, _)
\* The last arm that matches, not the first.
MatchArmLast(arms, topic, i) ==
    IF i > Len(arms) THEN 0
    ELSE LET later == MatchArmLast(arms, topic, i + 1)
         IN IF later # 0 THEN later
            ELSE IF Contains(topic, arms[i].pattern) THEN i ELSE 0

RECURSIVE MatchArm(_, _, _)
\* Lines 67-70 and 82-89: the arms are tried in order from the i-th; 0 is the
\* catch-all arm.
MatchArm(arms, topic, i) ==
    IF i > Len(arms) THEN 0
    ELSE IF Contains(topic, arms[i].pattern) THEN i
    ELSE MatchArm(arms, topic, i + 1)

\* Lines 91-108: the per-pattern handler decodes the payload, and only then
\* builds the provider, sets the owner and awaits the business handler.
HandlerSteps(answer) ==
    IF answer = "decode-error" THEN <<"decode">>
    ELSE <<"decode", "provider", "owner", "handle">>

Other(msg) == [kind |-> "Other", msg |-> msg]

\* The error without the topic.
UnhandledUnnamed(topic) == Other(<<"unhandled topic">>)

\* Line 69: the catch-all arm.
Unhandled(topic) == Other(<<"unhandled topic: ">> \o topic)

\* A missing topic that is taken for an empty one.
MissingTopicAsEmpty == Other(<<"unhandled topic: ">>)

\* Lines 63-65: the error for a message without a topic.
MissingTopic == Other(<<"message is missing topic">>)

\* A handler's error that is dropped.
MapErrDropped(answer) == [kind |-> "Ok", msg |-> <<>>]

\* Line 72: result.map_err(|e| Error::Other(e.to_string())); answer is "ok" or the
\* display message of the handler's error.
MapErr(answer) ==
    IF answer = "ok" THEN [kind |-> "Ok", msg |-> <<>>] ELSE Other(<<answer>>)

\* Lines 62-73: the dispatcher, for one inbound message; answer is what the
\* invoked handler comes back with.
Handle(message, answer) ==
    /\ Compiles(generated)
    /\ inbound = NoMessage
    /\ inbound' = message
    /\ IF message.topic = NoTopic
       THEN /\ invoked' = <<>>
            /\ outcome' = MissingTopic
       ELSE LET arm == MatchArm(generated.arms, message.topic, 1)
            IN IF arm = 0
               THEN /\ invoked' = <<>>
                    /\ outcome' = Unhandled(message.topic)
               ELSE /\ invoked' = <<[arm |-> arm,
                                     handler |-> generated.arms[arm].handler,
                                     payload |-> message.data,
                                     steps |-> HandlerSteps(answer),
                                     returned |-> answer]>>
                    /\ outcome' = MapErr(answer)
    /\ UNCHANGED <<declared, generated>>

MsgIdle ==
    /\ declared = <<>>
    /\ generated = NoModule
    /\ inbound = NoMessage
    /\ invoked = <<>>
    /\ outcome = NoOutcome

MsgInit ==
    /\ declared \in Configs
    /\ generated = NoModule
    /\ inbound = NoMessage
    /\ invoked = <<>>
    /\ outcome = NoOutcome

----------------------------------------------------------------------------
(* Request builder: request.rs *)

MaxHeaderCalls == 1

Owners == {"at", "nz"}
ProviderTypes == {"P", "Q"}
Providers == [type : ProviderTypes, name : {"x", "y"}]
Clients == [owner : Owners, provider : Providers]
\* A request R: Handler<P> as RequestSet<R, P> holds it: the value and the
\* provider type P it is handled with.
HandlerRequests == [body : {"r"}, P : ProviderTypes]
\* The raw input of TryFrom, and whether it decodes.
Inputs == [raw : {"r"}, decodes : BOOLEAN]
HeaderMaps == {{}, {<<"accept", "json">>}, {<<"accept", "json">>, <<"x-id", "7">>}}

\* Lines 81-88: the markers of a field that is not set (NoRequest of the source
\* is NoRequestSet here).
NoOwner == "NoOwner"
NoProvider == [type |-> "NoProvider", name |-> "none"]
NoRequestSet == [body |-> "NoRequest", P |-> "none"]

\* HeaderMap::default().
HeaderMap_default == {}

\* No builder: none was made yet, or the one there was has been moved into the
\* call that consumed it.
NoBuilder ==
    [type |-> "none", request |-> NoRequestSet, headers |-> HeaderMap_default,
     owner |-> NoOwner, provider |-> NoProvider]

\* Lines 52-54: PreHandler::new. A PreHandler holds the request only.
PreHandler_new(req) ==
    [type |-> "PreHandler", request |-> req, headers |-> HeaderMap_default,
     owner |-> NoOwner, provider |-> NoProvider]

\* A PreHandler that is built whether the input decodes or not.
HandlerUnchecked(input, P) ==
    [ok |-> TRUE, pre |-> PreHandler_new([body |-> input.raw, P |-> P])]

\* Lines 38-41: Handler::handler. try_from(input)? comes first; the PreHandler
\* is built from the decoded request.
Handler_handler(input, P) ==
    IF ~input.decodes
    THEN [ok |-> FALSE, pre |-> NoBuilder]
    ELSE [ok |-> TRUE, pre |-> PreHandler_new([body |-> input.raw, P |-> P])]

\* A provider() that starts from a header map of its own.
PreHandlerProviderWithHeaders(self, provider) ==
    [type |-> "RequestHandler", request |-> self.request,
     headers |-> {<<"accept", "json">>},
     provider |-> provider, owner |-> NoOwner]

\* Lines 56-65: PreHandler::provider.
PreHandler_provider(self, provider) ==
    [type |-> "RequestHandler", request |-> self.request,
     headers |-> HeaderMap_default,
     provider |-> provider, owner |-> NoOwner]

\* Lines 90-99 and 107-109: RequestHandler::new, the default builder.
RequestHandler_new ==
    [type |-> "RequestHandler", request |-> NoRequestSet,
     headers |-> HeaderMap_default, owner |-> NoOwner, provider |-> NoProvider]

\* Lines 112-125: RequestHandler::from_client.
RequestHandler_from_client(client, req) ==
    [type |-> "RequestHandler", request |-> req,
     headers |-> HeaderMap_default,
     owner |-> client.owner, provider |-> client.provider]

\* A provider() that exists on every RequestHandler.
ProviderAnytime(self) == self.type = "RequestHandler"

\* Line 131: provider() exists on RequestHandler<R, O, NoProvider>.
HasNoProvider(self) == self.type = "RequestHandler" /\ self.provider = NoProvider

\* Lines 133-140.
RequestHandler_provider(self, provider) == [self EXCEPT !.provider = provider]

\* Line 146: request() exists on RequestHandler<NoRequest, O, P>.
HasNoRequest(self) == self.type = "RequestHandler" /\ self.request = NoRequestSet

\* Lines 148-159: request() starts from a new header map.
RequestHandler_request(self, req) ==
    [self EXCEPT !.request = req, !.headers = HeaderMap_default]

\* Line 165: owner() exists on RequestHandler<R, NoOwner, P>.
HasNoOwner(self) == self.type = "RequestHandler" /\ self.owner = NoOwner

\* Lines 168-175.
RequestHandler_owner(self, owner) == [self EXCEPT !.owner = owner]

\* Lines 184-187: headers() exists on every RequestHandler.
RequestHandler_headers(self, headers) == [self EXCEPT !.headers = headers]

\* A builder that can be awaited as soon as it has a request and a provider.
AwaitableWithoutOwner(self) ==
    /\ self.type = "RequestHandler"
    /\ self.request # NoRequestSet
    /\ self.provider # NoProvider
    /\ self.request.P = self.provider.type

\* Lines 193-197 and 222-225: handle() and into_future() exist on
\* RequestHandler<RequestSet<R, P>, OwnerSet, ProviderSet<P>>, with one P.
Awaitable(self) ==
    /\ self.type = "RequestHandler"
    /\ self.request # NoRequestSet
    /\ self.owner # NoOwner
    /\ self.provider # NoProvider
    /\ self.request.P = self.provider.type

\* A Context with a header map of its own.
ContextFresh(self) ==
    [owner |-> self.owner, provider |-> self.provider, headers |-> HeaderMap_default]

\* Lines 211-215: the Context of the builder.
Context(self) ==
    [owner |-> self.owner, provider |-> self.provider, headers |-> self.headers]

NoReply == [kind |-> "none", err |-> "none"]
Running == [kind |-> "running", err |-> "none"]

Made(op, arg, on) == [op |-> op, arg |-> arg, on |-> on]

\* A builder is made, by its constructor or by a method of the builder before.
Build(op, arg, made) ==
    /\ builder' = made
    /\ calls' = Append(calls, Made(op, arg, builder))
    /\ UNCHANGED <<handled, reply>>

\* RequestHandler::new().
New ==
    /\ calls = <<>>
    /\ Build("RequestHandler::new", "none", RequestHandler_new)

\* PreHandler::new(request).
NewPreHandler(req) ==
    /\ calls = <<>>
    /\ Build("PreHandler::new", req, PreHandler_new(req))

\* Client::request(request): RequestHandler::from_client(self, request), with a
\* request handled with the client's provider type (line 116).
FromClient(client, req) ==
    /\ calls = <<>>
    /\ req.P = client.provider.type
    /\ Build("from_client", [client |-> client, request |-> req],
             RequestHandler_from_client(client, req))

\* R::handler(input).
CallHandler(input, P) ==
    /\ calls = <<>>
    /\ LET made == Handler_handler(input, P)
       IN /\ builder' = made.pre
          /\ calls' = <<Made("handler", input, builder)>>
          /\ reply' = IF made.ok THEN reply ELSE [kind |-> "err", err |-> "decode"]
          /\ UNCHANGED handled

\* pre.provider(provider), of the provider type of the request (line 57).
CallPreProvider(provider) ==
    /\ builder.type = "PreHandler"
    /\ provider.type = builder.request.P
    /\ Build("provider", provider, PreHandler_provider(builder, provider))

CallProvider(provider) ==
    /\ HasNoProvider(builder)
    /\ Build("provider", provider, RequestHandler_provider(builder, provider))

CallRequest(req) ==
    /\ HasNoRequest(builder)
    /\ Build("request", req, RequestHandler_request(builder, req))

CallOwner(owner) ==
    /\ HasNoOwner(builder)
    /\ Build("owner", owner, RequestHandler_owner(builder, owner))

HeaderCalls == Cardinality({i \in DOMAIN calls : calls[i].op = "headers"})

CallHeaders(headers) ==
    /\ builder.type = "RequestHandler"
    /\ HeaderCalls < MaxHeaderCalls
    /\ Build("headers", headers, RequestHandler_headers(builder, headers))

\* Lines 210-217 (by = "handle") and 230-236 (by = "into_future"): the builder
\* is moved into the call, which hands its request the Context and waits for
\* the handler.
CallHandle(by) ==
    /\ Awaitable(builder)
    /\ handled' = Append(handled, [request |-> builder.request, ctx |-> Context(builder)])
    /\ calls' = Append(calls, Made(by, "none", builder))
    /\ builder' = NoBuilder
    /\ reply' = Running

\* The handler of the request comes back.
HandlerDone(answer) ==
    /\ reply = Running
    /\ reply' = [kind |-> answer, err |-> IF answer = "err" THEN "handler" ELSE "none"]
    /\ UNCHANGED <<builder, calls, handled>>

\* messaging.rs lines 99-106: the handler function generated for a topic,
\*   #message::handler(payload)?.provider(&#provider::new()).owner(#owner).await
\* up to the point where it waits for the handler of the message.
handler_fn(payload, owner, provider) ==
    /\ calls = <<>>
    /\ LET decoded == Handler_handler(payload, provider.type)
           first == Made("handler", payload, builder)
       IN IF ~decoded.ok
          THEN /\ builder' = decoded.pre
               /\ calls' = <<first>>
               /\ reply' = [kind |-> "err", err |-> "decode"]
               /\ UNCHANGED handled
          ELSE LET pre == decoded.pre
                   with_provider == PreHandler_provider(pre, provider)
                   with_owner == RequestHandler_owner(with_provider, owner)
               IN /\ HasNoOwner(with_provider)
                  /\ Awaitable(with_owner)
                  /\ calls' = <<first,
                                Made("Provider::new", "none", pre),
                                Made("provider", provider, pre),
                                Made("owner", owner, with_provider),
                                Made("into_future", "none", with_owner)>>
                  /\ handled' = <<[request |-> with_owner.request,
                                   ctx |-> Context(with_owner)]>>
                  /\ builder' = NoBuilder
                  /\ reply' = Running

GrbIdle ==
    /\ builder = NoBuilder
    /\ calls = <<>>
    /\ handled = <<>>
    /\ reply = NoReply

----------------------------------------------------------------------------
(* Required environment variables: lib.rs *)

MaxListed == 2

VarNames == {"API_KEY", "SOME_URL", "TTL"}
\* What the environment holds for a name: nothing, a value that is valid
\* Unicode, or a value that is not.
VarValues == {"unset", "unicode", "not-unicode"}
\* $($var:literal),+ : one literal or more; the macro takes them as written.
Listings == SeqsUpTo(VarNames, MaxListed) \ {<<>>}

\* std::env::var: Ok for a variable that is set to valid Unicode, else
\* Err(NotPresent) or Err(NotUnicode).
env_var(e, key) ==
    CASE e[key] = "unset" -> [is_err |-> TRUE, err |-> "NotPresent"]
      [] e[key] = "not-unicode" -> [is_err |-> TRUE, err |-> "NotUnicode"]
      [] OTHER -> [is_err |-> FALSE, err |-> "none"]

RECURSIVE join(_, _)
\* [&str]::join.
join(strs, sep) ==
    IF Len(strs) <= 1 THEN strs
    ELSE <<Head(strs), sep>> \o join(Tail(strs), sep)

NotEnsured == [done |-> FALSE, panic |-> FALSE, msg |-> <<>>]

\* Lines 28-41 (warp-sdk; yetti-sdk lines 31-44 are the same): every literal
\* whose variable cannot be read is pushed in order, and a list that is not
\* empty is the message of the panic.
ensure_env ==
    /\ ensured = NotEnsured
    /\ LET missing == SelectSeq(listed, LAMBDA var : env_var(env, var).is_err)
       IN ensured' =
            IF missing # <<>>
            THEN [done |-> TRUE, panic |-> TRUE,
                  msg |-> <<"Missing required environment variables: ">>
                             \o join(missing, ", ")]
            ELSE [done |-> TRUE, panic |-> FALSE, msg |-> <<>>]
    /\ UNCHANGED <<env, listed>>

EnvIdle ==
    /\ env = [v \in VarNames |-> "unset"]
    /\ listed = <<>>
    /\ ensured = NotEnsured

EnvInit ==
    /\ env \in [VarNames -> VarValues]
    /\ listed \in Listings
    /\ ensured = NotEnsured

----------------------------------------------------------------------------
(* Start of the runtime: traits.rs and the entry procedure of runtime! *)

MaxHosts == 2

\* A configured host runs the default Server::run (as WasiConfig does,
\* wasi-config host.rs line 42) or a run of its own.
RunKinds == {"default", "own"}
HostConfigs == SeqsUpTo(RunKinds, MaxHosts) \ {<<>>}

NotConnected ==
    [st |-> "idle", options |-> "none", connect_with |-> 0, result |-> "none"]

\* A connect() that goes on to connect_with when from_env has failed.
ConnectAnyway(from_env_ok) ==
    [st |-> "connecting", options |-> IF from_env_ok THEN "ok" ELSE "err",
     connect_with |-> 1, result |-> "none"]

\* A connect() that takes a failure of from_env for a connected backend.
ConnectSwallows(from_env_ok) ==
    [st |-> IF from_env_ok THEN "connecting" ELSE "connected",
     options |-> IF from_env_ok THEN "ok" ELSE "err",
     connect_with |-> IF from_env_ok THEN 1 ELSE 0,
     result |-> IF from_env_ok THEN "none" ELSE "ok"]

\* traits.rs lines 56-58: Backend::connect up to its await. from_env()? comes
\* first; with the options connect_with is called, once.
connect(from_env_ok) ==
    IF from_env_ok
    THEN [st |-> "connecting", options |-> "ok", connect_with |-> 1, result |-> "none"]
    ELSE [st |-> "failed", options |-> "err", connect_with |-> 0, result |-> "from_env"]

\* traits.rs line 57: connect_with(options).await comes back, and connect()
\* returns what it returned.
connect_with_done(b, ok) ==
    [b EXCEPT !.st = IF ok THEN "connected" ELSE "failed",
              !.result = IF ok THEN "ok" ELSE "connect_with"]

\* A run that fails whatever the host.
ServerRunFails(kind) == {"err"}

\* traits.rs lines 44-46: what a host's run() can complete with; the default
\* run is async { Ok(()) }.
Server_run(kind) == IF kind = "default" THEN {"ok"} ELSE {"ok", "err"}

NotStarted == [phase |-> "none", kind |-> "none", host |-> 0, what |-> "none"]
Connecting == [phase |-> "connecting", kind |-> "none", host |-> 0, what |-> "none"]
Returned(kind, host, what) ==
    [phase |-> "returned", kind |-> kind, host |-> host, what |-> what]

\* The entry procedure connects the backends concurrently, with first-error
\* semantics: the first connect() that fails ends it with that error, and the
\* connects still under way are dropped.
Connected(h, b) ==
    /\ backend' = [g \in DOMAIN backend |->
                     IF g = h THEN b
                     ELSE IF b.st = "failed" /\ backend[g].st = "connecting"
                     THEN [backend[g] EXCEPT !.st = "dropped"]
                     ELSE backend[g]]
    /\ entry' = IF b.st = "failed" THEN Returned("err", h, b.result) ELSE entry
    /\ UNCHANGED <<config, state, server>>

\* The connect() of the backend of host h is polled for the first time.
Connect(h, from_env_ok) ==
    /\ entry.phase = "connecting"
    /\ backend[h].st = "idle"
    /\ Connected(h, connect(from_env_ok))

\* The connect_with of the backend of host h completes.
ConnectWith(h, ok) ==
    /\ entry.phase = "connecting"
    /\ backend[h].st = "connecting"
    /\ Connected(h, connect_with_done(backend[h], ok))

\* With every backend connected the entry procedure builds the linker,
\* pre-links the component and stores the State.
CreateState(linked) ==
    /\ entry.phase = "connecting"
    /\ \A h \in DOMAIN backend : backend[h].st = "connected"
    /\ state' = linked
    /\ entry' = IF linked THEN [entry EXCEPT !.phase = "linked"]
                ELSE Returned("err", 0, "link")
    /\ UNCHANGED <<config, backend, server>>

\* It then starts the run() of every host, all at once.
StartServers ==
    /\ entry.phase = "linked"
    /\ server' = [h \in DOMAIN server |-> "running"]
    /\ entry' = [entry EXCEPT !.phase = "serving"]
    /\ UNCHANGED <<config, backend, state>>

\* The run() of host h completes: it is the first, the others are cancelled and
\* the entry procedure returns what it completed with.
ServerExit(h, res) ==
    /\ entry.phase = "serving"
    /\ server[h] = "running"
    /\ res \in Server_run(config[h])
    /\ server' = [g \in DOMAIN server |-> IF g = h THEN res ELSE "cancelled"]
    /\ entry' = Returned(res, h, IF res = "err" THEN "run" ELSE "none")
    /\ UNCHANGED <<config, backend, state>>

RtIdle ==
    /\ config = <<>>
    /\ backend = <<>>
    /\ state = FALSE
    /\ server = <<>>
    /\ entry = NotStarted

RtInit ==
    /\ config \in HostConfigs
    /\ backend = [h \in DOMAIN config |-> NotConnected]
    /\ state = FALSE
    /\ server = [h \in DOMAIN config |-> "idle"]
    /\ entry = Connecting

----------------------------------------------------------------------------
(* Publisher::send in the guest: capabilities.rs *)

MaxSends == 2

PubTopics == {"a", "b"}
PubPayloads == {"p", "q"}
\* HashMap<String, String>: a set of <<key, value>> with distinct keys.
PubHeaders == {{}, {<<"k", "v">>}, {<<"k", "v">>, <<"l", "w">>}}

\* Lines 56-60: Message.
PubMessages == [payload : PubPayloads, headers : PubHeaders]

\* Lines 64-69: Message::new.
Message_new(payload) == [payload |-> payload, headers |-> {}]

\* Line 87: wasi::Message::new(&message.payload), the message of the
\* component-model import, made from the payload alone; nothing sets its
\* metadata.
wasi_Message_new(data) == [data |-> data, metadata |-> {}]

\* Lines 80-91: the guest's send. It connects a client named "host" and hands
\* the broker a new wasi message for the topic; either step may fail.
Publisher_send(topic, message, connect_ok, send_ok) ==
    /\ Len(sends) < MaxSends
    /\ LET res == IF ~connect_ok THEN "connecting to broker"
                  ELSE IF ~send_ok THEN "sending message to topic"
                  ELSE "ok"
       IN /\ sends' = Append(sends, [topic |-> topic, message |-> message,
                                     result |-> res])
          /\ broker' = IF res = "ok"
                       THEN Append(broker, [client |-> "host", topic |-> topic,
                                            message |-> wasi_Message_new(message.payload)])
                       ELSE broker

PubIdle ==
    /\ sends = <<>>
    /\ broker = <<>>

----------------------------------------------------------------------------
(* Telemetry: init.rs *)

MaxInitCalls == 3

\* The threads of the guest that may call init().
InitThreads == {"t1", "t2"}

\* OnceLock::set: the cell takes the value when it is empty, and the call
\* fails when it is not.
OnceLock_set(cell, value) ==
    IF cell = "unset" THEN [ok |-> TRUE, cell |-> value]
    ELSE [ok |-> FALSE, cell |-> cell]

\* A call of init() has returned.
InitReturns(t, returned) ==
    /\ initLog' = Append(initLog, [by |-> t, returned |-> returned])
    /\ initPc' = [initPc EXCEPT ![t] = "idle"]

InitStarted == Len(initLog) + Cardinality({t \in InitThreads : initPc[t] # "idle"})

\* Lines 45-64: init() is called. With a provider in TRACING or in METRICS it
\* returns Ok(None); else it builds the resource and the registry.
init_enter(t) ==
    /\ initPc[t] = "idle"
    /\ InitStarted < MaxInitCalls
    /\ IF TRACING # "unset" \/ METRICS # "unset"
       THEN InitReturns(t, "None")
       ELSE /\ initPc' = [initPc EXCEPT ![t] = "tracing"]
            /\ UNCHANGED initLog
    /\ UNCHANGED <<TRACING, METRICS, subscriber>>

\* Lines 68-74: the tracer provider is made and put into TRACING.
init_tracing(t) ==
    /\ initPc[t] = "tracing"
    /\ LET set == OnceLock_set(TRACING, t)
       IN /\ TRACING' = set.cell
          /\ IF set.ok
             THEN /\ initPc' = [initPc EXCEPT ![t] = "metrics"]
                  /\ UNCHANGED initLog
             ELSE InitReturns(t, "failed to set tracing provider")
    /\ UNCHANGED <<METRICS, subscriber>>

\* Lines 78-84: the meter provider is made and put into METRICS.
init_metrics(t) ==
    /\ initPc[t] = "metrics"
    /\ LET set == OnceLock_set(METRICS, t)
       IN /\ METRICS' = set.cell
          /\ IF set.ok
             THEN /\ initPc' = [initPc EXCEPT ![t] = "subscriber"]
                  /\ UNCHANGED initLog
             ELSE InitReturns(t, "failed to set metrics provider")
    /\ UNCHANGED <<TRACING, subscriber>>

\* Lines 86-88: registry.try_init(). It fails when the process has a global
\* default subscriber already, and may fail when it has a logger (logger_free
\* is FALSE); else the registry is the global default and init() returns the
\* guard.
init_subscriber(t, logger_free) ==
    /\ initPc[t] = "subscriber"
    /\ IF subscriber = "none" /\ logger_free
       THEN /\ subscriber' = t
            /\ InitReturns(t, "Some")
       ELSE /\ InitReturns(t, "issue initializing subscriber")
            /\ UNCHANGED subscriber
    /\ UNCHANGED <<TRACING, METRICS>>

OtelInit ==
    /\ TRACING = "unset"
    /\ METRICS = "unset"
    /\ subscriber = "none"
    /\ initPc = [t \in InitThreads |-> "idle"]
    /\ initLog = <<>>

OtelIdle ==
    /\ TRACING = "unset"
    /\ METRICS = "unset"
    /\ subscriber = "none"
    /\ initPc = <<>>
    /\ initLog = <<>>

----------------------------------------------------------------------------
(* Rows: entity.rs *)

MaxFields == 2

ColNames == {"a", "b"}

\* The variants of DataType that is_null knows (lines 274-285).
DataKinds ==
    {"Boolean", "Int32", "Int64", "Uint32", "Uint64", "Float", "Double", "Str",
     "Binary", "Date", "Time", "Timestamp"}

\* The variants the rows of the model hold, each with None ("null") or Some
\* of one of two values.
RowKinds == {"Boolean", "Int32", "Str", "Date"}
DataTypes == [kind : RowKinds, value : {"null", "v1", "v2"}]
Fields == [name : ColNames, value : DataTypes]
Rows == SeqsUpTo(Fields, MaxFields)

\* The types fetched: bool, i32 and String, plain or in an Option.
FetchTypes == {"bool", "i32", "String"}

NoFetch == [T |-> "none", optional |-> FALSE, col |-> "none"]
NotFetched == [kind |-> "pending", value |-> "none"]

\* Ok(v) of a plain type, Ok(Some(v)) and Ok(None) of an Option, and an error.
FetchOk(v) == [kind |-> "ok", value |-> v]
FetchSome(v) == [kind |-> "some", value |-> v]
FetchNone == [kind |-> "none", value |-> "none"]
FetchErr(msg) == [kind |-> "err", value |-> msg]

RECURSIVE find(_, _, _)
\* Iterator::find over row.fields, from the i-th field: the index of the first
\* field with the name, or 0.
find(fields, name, i) ==
    IF i > Len(fields) THEN 0
    ELSE IF fields[i].name = name THEN i
    ELSE find(fields, name, i + 1)

\* Lines 263-269.
row_field(fields, name) ==
    LET i == find(fields, name, 1)
    IN IF i = 0 THEN FetchErr("missing column") ELSE FetchOk(fields[i].value)

\* A test for null that never finds one.
IsNullNever(value) == FALSE

\* Lines 271-287.
is_null(value) == value.kind \in DataKinds /\ value.value = "null"

\* Lines 289-294.
as_bool(value) ==
    IF value.kind = "Boolean" /\ value.value # "null" THEN FetchOk(value.value)
    ELSE FetchErr("expected boolean data type")

\* Lines 296-301.
as_i32(value) ==
    IF value.kind = "Int32" /\ value.value # "null" THEN FetchOk(value.value)
    ELSE FetchErr("expected int32 data type")

\* Lines 338-343.
as_string(value) ==
    IF value.kind = "Str" /\ value.value # "null" THEN FetchOk(value.value)
    ELSE FetchErr("expected string data type")

\* Lines 188-198 and 230-234: fetch of bool, i32 and String: the error of
\* row_field is returned with `?`.
T_fetch(T, fields, col) ==
    LET field == row_field(fields, col)
    IN IF field.kind = "err" THEN field
       ELSE CASE T = "bool" -> as_bool(field.value)
              [] T = "i32" -> as_i32(field.value)
              [] T = "String" -> as_string(field.value)

\* Lines 254-261: fetch of Option<T>.
Option_fetch(T, fields, col) ==
    LET field == row_field(fields, col)
    IN IF field.kind = "ok" /\ ~is_null(field.value)
       THEN LET inner == T_fetch(T, fields, col)
            IN IF inner.kind = "err" THEN inner ELSE FetchSome(inner.value)
       ELSE FetchNone

\* One call of fetch on the row.
fetch(T, optional, col) ==
    /\ fetched = NotFetched
    /\ fetchCall' = [T |-> T, optional |-> optional, col |-> col]
    /\ fetched' = IF optional THEN Option_fetch(T, row, col)
                  ELSE T_fetch(T, row, col)
    /\ UNCHANGED row

FetchInit ==
    /\ row \in Rows
    /\ fetchCall = NoFetch
    /\ fetched = NotFetched

FetchIdle ==
    /\ row = <<>>
    /\ fetchCall = NoFetch
    /\ fetched = NotFetched

----------------------------------------------------------------------------
(* Filters: filter.rs *)

MaxFilters == 3

\* Lines 18, 34, 60-64: Filter::Eq and Filter::IsNull, with or without a
\* table, and the combinators.
FilterLeaves ==
    {[tag |-> "Eq", tbl |-> "None", col |-> "a", val |-> "1"],
     [tag |-> "IsNull", tbl |-> "u", col |-> "b", val |-> "none"]}
And(filters) == [tag |-> "And", filters |-> filters]
Or(filters) == [tag |-> "Or", filters |-> filters]
Not(f) == [tag |-> "Not", filter |-> f]

\* The filters inside a list: a leaf, a list of leaves (empty, of one, of
\* two), or a negated leaf.
SubFilters ==
    FilterLeaves
       \cup {And(<<>>), Or(<<>>)}
       \cup {And(<<f>>) : f \in FilterLeaves}
       \cup {Or(<<f, g>>) : f, g \in FilterLeaves}
       \cup {Not(f) : f \in FilterLeaves}

\* The lists of at most MaxFilters of them.
FilterLists == UNION {[1..n -> SubFilters] : n \in 0..MaxFilters}
Filters ==
    SubFilters \cup {And(q) : q \in FilterLists} \cup {Or(q) : q \in FilterLists}

NoFilter == [tag |-> "none"]
NoExpr == [op |-> "none"]

\* The table of the entity.
default_table == "t"

\* Lines 142 and 149: Expr::value(true) and Expr::value(false).
Expr_value(b) == [op |-> "value", value |-> b]

\* SimpleExpr::and and SimpleExpr::or: the binary expression of two.
binary(op, left, right) == [op |-> op, left |-> left, right |-> right]

\* Lines 69-73.
resolve_column(tbl, col, table) == <<IF tbl = "None" THEN table ELSE tbl, col>>

RECURSIVE FoldRight(_, _, _)
\* A fold that nests to the right.
FoldRight(first, rest, op) ==
    IF rest = <<>> THEN first
    ELSE binary(op, first, FoldRight(Head(rest), Tail(rest), op))

RECURSIVE fold(_, _, _)
\* Iterator::fold (lines 143 and 150): the accumulator, from the first
\* expression, takes the others one by one.
fold(first, rest, op) ==
    IF rest = <<>> THEN first
    ELSE fold(binary(op, first, Head(rest)), Tail(rest), op)

RECURSIVE into_expr(_, _)
\* Lines 77-155, for Eq, IsNull, And, Or and Not.
into_expr(self, table) ==
    CASE self.tag = "Eq" ->
           [op |-> "eq", col |-> resolve_column(self.tbl, self.col, table),
            val |-> self.val]
      [] self.tag = "IsNull" ->
           [op |-> "is_null", col |-> resolve_column(self.tbl, self.col, table),
            val |-> "none"]
      [] self.tag = "And" ->
           LET exprs == [i \in DOMAIN self.filters |-> into_expr(self.filters[i], table)]
           IN IF Len(exprs) = 0 THEN Expr_value(TRUE)
              ELSE fold(Head(exprs), Tail(exprs), "and")
      [] self.tag = "Or" ->
           LET exprs == [i \in DOMAIN self.filters |-> into_expr(self.filters[i], table)]
           IN IF Len(exprs) = 0 THEN Expr_value(FALSE)
              ELSE fold(Head(exprs), Tail(exprs), "or")
      [] self.tag = "Not" ->
           [op |-> "not", inner |-> into_expr(self.filter, table)]

\* One conversion of the filter.
IntoExpr ==
    /\ expr = NoExpr
    /\ expr' = into_expr(filter, default_table)
    /\ UNCHANGED filter

FilterInit ==
    /\ filter \in Filters
    /\ expr = NoExpr

FilterIdle ==
    /\ filter = NoFilter
    /\ expr = NoExpr

----------------------------------------------------------------------------
(* Specifications *)

\* Concurrent calls of handle() against one cache.
Init ==
    /\ CacheInit /\ HostIdle /\ MsgIdle /\ GrbIdle /\ EnvIdle /\ RtIdle
    /\ PubIdle /\ OtelIdle /\ FetchIdle /\ FilterIdle

Next ==
    \/ \E c \in Calls, req \in Requests, ok \in BOOLEAN :
          Call(c, req, ok) /\ UNCHANGED notCacheVars
    \/ \E c \in Calls, b \in BOOLEAN, ok \in BOOLEAN :
          GetDone(c, b, ok) /\ UNCHANGED notCacheVars
    \/ \E c \in Calls, a \in {"error", "unconvertible", "ok"}, up \in OneReadResponses :
          FetchDone(c, a, up) /\ UNCHANGED notCacheVars
    \/ \E c \in Calls, k \in {"complete", "dropped", "cancelled"}, n \in ReadSizes \cup {0} :
          ReadBody(c, k, n) /\ UNCHANGED notCacheVars
    \/ \E c \in Calls, b \in BOOLEAN :
          PutDone(c, b) /\ UNCHANGED notCacheVars
    \/ \E c \in Calls, l \in BOOLEAN :
          DropFuture(c, l) /\ UNCHANGED notCacheVars
    \/ \E fp \in Fingerprints :
          Expire(fp) /\ UNCHANGED notCacheVars

Spec == Init /\ [][Next]_vars

\* One call of handle(), with upstream bodies of every length up to MaxChunks
\* buffers.
BodyNext ==
    \/ \E req \in Requests, ok \in BOOLEAN :
          Call(1, req, ok) /\ UNCHANGED notCacheVars
    \/ \E b \in BOOLEAN, ok \in BOOLEAN :
          GetDone(1, b, ok) /\ UNCHANGED notCacheVars
    \/ \E a \in {"error", "unconvertible", "ok"}, up \in UpstreamResponses :
          FetchDone(1, a, up) /\ UNCHANGED notCacheVars
    \/ \E k \in {"complete", "dropped", "cancelled"}, n \in ReadSizes \cup {0} :
          ReadBody(1, k, n) /\ UNCHANGED notCacheVars
    \/ \E b \in BOOLEAN :
          PutDone(1, b) /\ UNCHANGED notCacheVars
    \/ \E l \in BOOLEAN :
          DropFuture(1, l) /\ UNCHANGED notCacheVars
    \/ \E fp \in Fingerprints :
          Expire(fp) /\ UNCHANGED notCacheVars

BodySpec == Init /\ [][BodyNext]_vars

\* One send_request of the host.
HostNext == send_request /\ UNCHANGED notHostVars

HostSpecInit ==
    /\ CacheInit /\ HostInit /\ MsgIdle /\ GrbIdle /\ EnvIdle /\ RtIdle
    /\ PubIdle /\ OtelIdle /\ FetchIdle /\ FilterIdle

HostSpec == HostSpecInit /\ [][HostNext]_vars

\* One generated dispatcher and one inbound message.
MsgNext ==
    \/ expand /\ UNCHANGED notMsgVars
    \/ /\ inbound = NoMessage
       /\ \E message \in Messages, answer \in {"ok", "decode-error", "handler-error"} :
             Handle(message, answer) /\ UNCHANGED notMsgVars

MsgSpecInit ==
    /\ CacheInit /\ HostIdle /\ MsgInit /\ GrbIdle /\ EnvIdle /\ RtIdle
    /\ PubIdle /\ OtelIdle /\ FetchIdle /\ FilterIdle

MsgSpec == MsgSpecInit /\ [][MsgNext]_vars

\* One builder, from any of its constructors to the answer of the handler.
BuilderNext ==
    \/ New /\ UNCHANGED notGrbVars
    \/ \E req \in HandlerRequests : NewPreHandler(req) /\ UNCHANGED notGrbVars
    \/ \E client \in Clients, req \in HandlerRequests :
          FromClient(client, req) /\ UNCHANGED notGrbVars
    \/ \E input \in Inputs, P \in ProviderTypes :
          CallHandler(input, P) /\ UNCHANGED notGrbVars
    \/ \E payload \in Inputs, owner \in Owners, provider \in Providers :
          handler_fn(payload, owner, provider) /\ UNCHANGED notGrbVars
    \/ \E provider \in Providers : CallPreProvider(provider) /\ UNCHANGED notGrbVars
    \/ \E provider \in Providers : CallProvider(provider) /\ UNCHANGED notGrbVars
    \/ \E req \in HandlerRequests : CallRequest(req) /\ UNCHANGED notGrbVars
    \/ \E owner \in Owners : CallOwner(owner) /\ UNCHANGED notGrbVars
    \/ \E headers \in HeaderMaps : CallHeaders(headers) /\ UNCHANGED notGrbVars
    \/ \E by \in {"handle", "into_future"} : CallHandle(by) /\ UNCHANGED notGrbVars
    \/ \E answer \in {"ok", "err"} : HandlerDone(answer) /\ UNCHANGED notGrbVars

BuilderSpec == Init /\ [][BuilderNext]_vars

\* One ensure_env! in one environment.
EnvNext == ensure_env /\ UNCHANGED notEnvVars

EnvSpecInit ==
    /\ CacheInit /\ HostIdle /\ MsgIdle /\ GrbIdle /\ EnvInit /\ RtIdle
    /\ PubIdle /\ OtelIdle /\ FetchIdle /\ FilterIdle

EnvSpec == EnvSpecInit /\ [][EnvNext]_vars

\* One start of the runtime.
StartupNext ==
    \/ \E h \in DOMAIN config, ok \in BOOLEAN : Connect(h, ok) /\ UNCHANGED notRtVars
    \/ \E h \in DOMAIN config, ok \in BOOLEAN : ConnectWith(h, ok) /\ UNCHANGED notRtVars
    \/ \E linked \in BOOLEAN : CreateState(linked) /\ UNCHANGED notRtVars
    \/ StartServers /\ UNCHANGED notRtVars
    \/ \E h \in DOMAIN config, res \in {"ok", "err"} :
          ServerExit(h, res) /\ UNCHANGED notRtVars

StartupSpecInit ==
    /\ CacheInit /\ HostIdle /\ MsgIdle /\ GrbIdle /\ EnvIdle /\ RtInit
    /\ PubIdle /\ OtelIdle /\ FetchIdle /\ FilterIdle

StartupSpec == StartupSpecInit /\ [][StartupNext]_vars

\* Calls of init() by the threads of one guest.
OtelNext ==
    \/ \E t \in InitThreads : init_enter(t) /\ UNCHANGED notOtelVars
    \/ \E t \in InitThreads : init_tracing(t) /\ UNCHANGED notOtelVars
    \/ \E t \in InitThreads : init_metrics(t) /\ UNCHANGED notOtelVars
    \/ \E t \in InitThreads, logger_free \in BOOLEAN :
          init_subscriber(t, logger_free) /\ UNCHANGED notOtelVars

OtelSpecInit ==
    /\ CacheInit /\ HostIdle /\ MsgIdle /\ GrbIdle /\ EnvIdle /\ RtIdle
    /\ PubIdle /\ OtelInit /\ FetchIdle /\ FilterIdle

OtelSpec == OtelSpecInit /\ [][OtelNext]_vars

\* One fetch from a row.
FetchNext ==
    \E T \in FetchTypes, optional \in BOOLEAN, col \in ColNames :
       fetch(T, optional, col) /\ UNCHANGED notFetchVars

FetchSpecInit ==
    /\ CacheInit /\ HostIdle /\ MsgIdle /\ GrbIdle /\ EnvIdle /\ RtIdle
    /\ PubIdle /\ OtelIdle /\ FetchInit /\ FilterIdle

FetchSpec == FetchSpecInit /\ [][FetchNext]_vars

\* One conversion of a filter.
FilterNext == IntoExpr /\ UNCHANGED notFilterVars

FilterSpecInit ==
    /\ CacheInit /\ HostIdle /\ MsgIdle /\ GrbIdle /\ EnvIdle /\ RtIdle
    /\ PubIdle /\ OtelIdle /\ FetchIdle /\ FilterInit

FilterSpec == FilterSpecInit /\ [][FilterNext]_vars

\* Some calls of Publisher::send in the guest.
PubNext ==
    \E topic \in PubTopics, message \in PubMessages \cup {Message_new("p")},
       connect_ok \in BOOLEAN, send_ok \in BOOLEAN :
       Publisher_send(topic, message, connect_ok, send_ok) /\ UNCHANGED notPubVars

PubSpec == Init /\ [][PubNext]_vars

\* The default run is ready when it is polled first (traits.rs line 45), and
\* the entry procedure polls the runs it has started.
DefaultExit ==
    \E h \in DOMAIN config :
       config[h] = "default" /\ ServerExit(h, "ok") /\ UNCHANGED notRtVars

StartupFairSpec == StartupSpec /\ WF_vars(DefaultExit)

----------------------------------------------------------------------------
(* Outbound cache: the claims *)

Cached(c) == pc[c] # "idle" /\ request[c].directive = "max-age"
Bypassed(c) == pc[c] # "idle" /\ request[c].directive = "absent"
UpstreamFailures ==
    {"Issue converting request", "Issue calling proxy", "Issue converting response"}

\* C1 (as claimed): of two calls that carry a cache directive and have the same
\* fingerprint, at most one has an upstream fetch in flight at any time.
C1_SingleFlight ==
    \A c1, c2 \in Calls :
       (c1 # c2 /\ Cached(c1) /\ Cached(c2) /\ request[c1].fp = request[c2].fp)
          => ~(pc[c1] = "fetch" /\ pc[c2] = "fetch")

HitAfterMiss(w, c) ==
    /\ w # 0
    /\ stats[c].saw = w
    /\ request[w] = request[c]
    /\ result[w].kind = "ok" /\ ~result[w].resp.hit

C4_EtagIsFingerprint ==
    /\ \A c \in Calls : pc[c] = "put" => response[c].etag = request[c].fp
    /\ \A fp \in Fingerprints : kv[fp].present => kv[fp].resp.etag = fp
    /\ \A c \in Calls :
          (Cached(c) /\ result[c].kind = "ok" /\ stats[c].fetches = 1)
             => result[c].resp.etag = request[c].fp

C4_Witness ==
    \E c \in Calls :
       /\ Cached(c) /\ result[c].kind = "ok" /\ stats[c].fetches = 1
       /\ result[c].resp.etag = request[c].fp
       /\ kv[request[c].fp].present /\ kv[request[c].fp].writer = c

\* C5: a call that ends with an error of the request conversion, of the upstream
\* fetch or of the response conversion has written nothing to the cache and has
\* fetched at most once; every entry of the cache comes from a call that got its
\* response from upstream; and an identical call after the failed one that is not
\* served an entry of another call fetches upstream itself.
C5_FailureNotCached ==
    /\ \A c \in Calls :
          (result[c].kind = "err" /\ result[c].err \in UpstreamFailures) =>
             /\ stats[c].puts = 0
             /\ stats[c].fetches <= 1
             /\ \A fp \in Fingerprints : kv[fp].writer # c
    /\ \A fp \in Fingerprints :
          kv[fp].present =>
             LET w == kv[fp].writer IN
             /\ Cached(w) /\ request[w].fp = fp
             /\ stats[w].fetches = 1 /\ stats[w].puts = 1
             /\ ~(result[w].kind = "err" /\ result[w].err \in UpstreamFailures)
    /\ \A c1, c2 \in Calls :
          (c1 < c2 /\ Cached(c1) /\ request[c1] = request[c2]
             /\ result[c1].kind = "err" /\ result[c1].err \in UpstreamFailures
             /\ result[c2].kind = "ok" /\ stats[c2].saw = 0)
          => stats[c2].fetches = 1

C5_Witness ==
    \E c1, c2 \in Calls :
       /\ c1 < c2 /\ Cached(c1) /\ request[c1] = request[c2]
       /\ result[c1] = Err("Issue calling proxy")
       /\ result[c2].kind = "ok" /\ stats[c2].fetches = 1

\* C6 (as claimed): no call ends with an error of the cache backend.
C6_BackendFailureHidden ==
    \A c \in Calls : result[c].kind = "err" => result[c].err \notin {"cache get", "cache put"}

\* C7 (as claimed): no entry of the cache holds less than the whole body the
\* upstream had.
C7_NoPartialEntry ==
    \A fp \in Fingerprints : kv[fp].present => kv[fp].resp.body = kv[fp].resp.len

\* C25 (as claimed): a call whose last read delivered less than a buffer
\* returns the whole body of the upstream. (A body that is no multiple of
\* CHUNK_SIZE ends with such a read: every read the loop goes on after
\* delivers a full buffer, and a dropped or cancelled read delivers nothing.)
C25_WholeBody ==
    \A c \in Calls :
       (result[c].kind = "ok" /\ result[c].resp.body % CHUNK_SIZE # 0)
          => result[c].resp.body = result[c].resp.len

----------------------------------------------------------------------------
(* Host transport: the claims *)

NineForbidden ==
    {"connection", "host", "proxy-authenticate", "proxy-authorization",
     "transfer-encoding", "upgrade", "keep-alive", "proxy-connection",
     "http2-settings"}

\* C8: a response send_request hands back carries none of the nine forbidden
\* headers; its other headers are those the upstream sent, in order and with
\* their values, and its status and body are the upstream's.
C8_ForbiddenStripped ==
    hostOut.kind = "ok" =>
       /\ hostIn.answer \in HostResponses
       /\ \A i \in DOMAIN hostOut.resp.headers :
             hostOut.resp.headers[i][1] \notin NineForbidden
       /\ hostOut.resp.headers =
             SelectSeq(hostIn.answer.headers, LAMBDA h : h[1] \notin NineForbidden)
       /\ hostOut.resp.status = hostIn.answer.status
       /\ hostOut.resp.body = hostIn.answer.body

C8_Witness ==
    /\ hostOut.kind = "ok"
    /\ hostIn.answer.headers = <<<<"http2-settings", "x">>, <<"content-type", "y">>>>
    /\ hostOut.resp.headers = <<<<"content-type", "y">>>>

\* The upstream failed: the request was sent and reqwest reported an error.
UpstreamFailed == hostOut.kind = "err" /\ hostOut.sent

\* C22: a failure of the upstream is reported with one error code: a timeout as
\* connection-timeout, also when it is a connect failure as well; a connect
\* failure that is no timeout as connection-refused; a request failure that is
\* neither as http-request-uri-invalid; any other as internal-error with the
\* message of the error.
C22_ErrorClassification ==
    UpstreamFailed =>
       LET e == hostIn.answer IN
       /\ e.timeout => hostOut.code = "connection-timeout"
       /\ (~e.timeout /\ e.connect) => hostOut.code = "connection-refused"
       /\ (~e.timeout /\ ~e.connect /\ e.request) =>
             hostOut.code = "http-request-uri-invalid"
       /\ (~e.timeout /\ ~e.connect /\ ~e.request) =>
             (hostOut.code = "internal-error" /\ hostOut.msg = "reqwest")
       /\ hostOut.code # "internal-error" => hostOut.msg = "none"

C22_Witness ==
    /\ UpstreamFailed
    /\ hostIn.answer.timeout /\ hostIn.answer.connect
    /\ hostOut.code = "connection-timeout"

\* The value of the request's first Client-Cert header.
ClientCert ==
    LET at == {i \in DOMAIN hostIn.headers : hostIn.headers[i][1] = "client-cert"}
    IN IF at = {} THEN "absent"
       ELSE hostIn.headers[CHOOSE i \in at : \A j \in at : i <= j][2]

\* C26: the request that goes upstream carries no Client-Cert header, and its
\* other headers are those of the guest's request; when the value of the
\* header is not text, not base64 or not PEM, send_request returns
\* internal-error and nothing goes upstream.
C26_ClientCertConsumed ==
    hostOut.kind # "pending" =>
       /\ \A i \in DOMAIN hostOut.upstream : hostOut.upstream[i][1] # "client-cert"
       /\ hostOut.sent =>
             hostOut.upstream =
                SelectSeq(hostIn.headers, LAMBDA h : h[1] # "client-cert")
       /\ ClientCert \in {"not-text", "not-base64", "not-pem"} =>
             /\ hostOut.kind = "err"
             /\ hostOut.code = "internal-error"
             /\ ~hostOut.sent
             /\ hostOut.upstream = <<>>

C26_Witness ==
    /\ hostOut.kind = "ok"
    /\ ClientCert = "pem"
    /\ hostOut.sent
    /\ hostOut.upstream = <<>>

----------------------------------------------------------------------------
(* Messaging dispatcher: the claims *)

Dispatched == inbound.some /\ inbound.topic # NoTopic

\* The declared patterns that are substrings of the topic, by position.
Matching(topic) == {i \in DOMAIN declared : Contains(topic, declared[i])}

\* C9: for a message whose topic contains a declared pattern the dispatcher
\* invokes one handler, the one generated for the first such pattern in
\* declaration order, with the payload of the message.
C9_FirstMatchWins ==
    (Dispatched /\ Matching(inbound.topic) # {}) =>
       LET first == CHOOSE i \in Matching(inbound.topic) :
                       \A j \in Matching(inbound.topic) : i <= j
       IN /\ Len(invoked) = 1
          /\ invoked[1].arm = first
          /\ invoked[1].handler = handler_name(declared[first])
          /\ invoked[1].payload = inbound.data

C9_Witness ==
    /\ Dispatched
    /\ Cardinality(Matching(inbound.topic)) > 1
    /\ Len(invoked) = 1
    /\ invoked[1].arm = 1
    /\ invoked[1].payload = <<7>>

\* C10: for a message whose topic contains none of the declared patterns the
\* dispatcher invokes no handler and returns the error "unhandled topic: "
\* followed by the topic.
C10_TopicMiss ==
    (Dispatched /\ Matching(inbound.topic) = {}) =>
       /\ invoked = <<>>
       /\ outcome = [kind |-> "Other", msg |-> <<"unhandled topic: ">> \o inbound.topic]

C10_Witness ==
    /\ Dispatched
    /\ Matching(inbound.topic) = {}
    /\ Len(inbound.topic) > 0
    /\ outcome.kind = "Other"

\* C11 (as claimed): the generator never emits two handler functions with the
\* same name: a module expand has emitted has pairwise distinct handler
\* functions.
C11_CollisionRejected ==
    \A i, j \in DOMAIN generated.fns :
       generated.fns[i] = generated.fns[j] => i = j

\* C21: when the handler of the matched pattern returns an error, of the decoding
\* or of its own, the dispatcher returns Error::Other with the message of that
\* error; when it returns Ok the dispatcher returns Ok(()); and whatever the
\* message, what the dispatcher returns is Ok(()) or an Error::Other.
C21_HandlerErrorSurfaced ==
    /\ outcome.kind \in {"pending", "Ok", "Other"}
    /\ inbound.some => outcome.kind \in {"Ok", "Other"}
    /\ \A i \in DOMAIN invoked :
          IF invoked[i].returned = "ok"
          THEN outcome = [kind |-> "Ok", msg |-> <<>>]
          ELSE /\ invoked[i].returned \in {"decode-error", "handler-error"}
               /\ outcome = [kind |-> "Other", msg |-> <<invoked[i].returned>>]
    /\ outcome.kind = "Ok" => (Len(invoked) = 1 /\ invoked[1].returned = "ok")

C21_Witness ==
    /\ Len(invoked) = 1
    /\ invoked[1].returned = "handler-error"
    /\ invoked[1].steps = <<"decode", "provider", "owner", "handle">>
    /\ outcome = [kind |-> "Other", msg |-> <<"handler-error">>]

\* C28: for a message without a topic the dispatcher returns the error "message
\* is missing topic" and invokes no handler, whatever patterns are declared.
C28_MissingTopic ==
    (inbound.some /\ inbound.topic = NoTopic) =>
       /\ invoked = <<>>
       /\ outcome = [kind |-> "Other", msg |-> <<"message is missing topic">>]

C28_Witness ==
    /\ inbound.some /\ inbound.topic = NoTopic
    /\ Len(declared) = MaxTopics
    /\ declared[1] = <<>>
    /\ outcome.kind = "Other"

----------------------------------------------------------------------------
(* Request builder: the claims *)

\* The calls that awaited a builder, by position.
Awaited == {i \in DOMAIN calls : calls[i].op \in {"handle", "into_future"}}
Times(op) == Cardinality({i \in DOMAIN calls : calls[i].op = op})
FullySet(b) ==
    b.request \in HandlerRequests /\ b.owner \in Owners /\ b.provider \in Providers

\* C12: a builder can be awaited (handle, into_future) only with its request,
\* owner and provider set; whatever the constructor and the calls made, a
\* builder that was awaited had all three, its owner from an owner() call or
\* from the client and its provider from a provider() call or from the client,
\* and the Context the handler got has an owner and a provider.
C12_Awaitable ==
    /\ (ENABLED (\E by \in {"handle", "into_future"} : CallHandle(by)))
          => FullySet(builder)
    /\ \A i \in Awaited :
          /\ FullySet(calls[i].on)
          /\ \E j \in 1..(i - 1) : calls[j].op \in {"owner", "from_client"}
          /\ \E j \in 1..(i - 1) : calls[j].op \in {"provider", "from_client"}
    /\ \A i \in DOMAIN handled :
          handled[i].ctx.owner \in Owners /\ handled[i].ctx.provider \in Providers

C12_Witness ==
    /\ Len(calls) = 5
    /\ calls[1].op = "RequestHandler::new"
    /\ calls[2].op = "provider" /\ calls[3].op = "request" /\ calls[4].op = "owner"
    /\ calls[5].op = "into_future"
    /\ Len(handled) = 1

\* C13: provider() can be called only on a builder without a provider, owner()
\* only on one without an owner, request() only on one without a request; so
\* each is called at most once on the way of a builder, and never for a field
\* the constructor has set.
C13_SetOnce ==
    /\ (ENABLED (\E p \in Providers : CallProvider(p) \/ CallPreProvider(p)))
          => builder.provider = NoProvider
    /\ (ENABLED (\E o \in Owners : CallOwner(o))) => builder.owner = NoOwner
    /\ (ENABLED (\E r \in HandlerRequests : CallRequest(r)))
          => builder.request = NoRequestSet
    /\ \A i \in DOMAIN calls :
          /\ calls[i].op = "provider" => calls[i].on.provider = NoProvider
          /\ calls[i].op = "owner" => calls[i].on.owner = NoOwner
          /\ calls[i].op = "request" => calls[i].on.request = NoRequestSet
    /\ Times("provider") <= 1 /\ Times("owner") <= 1 /\ Times("request") <= 1
    /\ Times("from_client") = 1 =>
          Times("provider") + Times("owner") + Times("request") = 0
    /\ Times("PreHandler::new") + Times("handler") = 1 => Times("request") = 0

C13_Witness ==
    /\ Times("RequestHandler::new") = 1
    /\ Times("provider") = 1 /\ Times("owner") = 1 /\ Times("request") = 1
    /\ FullySet(builder)

\* The owner, the provider and the request the caller gave: to owner(),
\* provider() and request(), or to the constructor.
GivenOwner ==
    LET j == CHOOSE j \in DOMAIN calls : calls[j].op \in {"owner", "from_client"}
    IN IF calls[j].op = "owner" THEN calls[j].arg ELSE calls[j].arg.client.owner
GivenProvider ==
    LET j == CHOOSE j \in DOMAIN calls : calls[j].op \in {"provider", "from_client"}
    IN IF calls[j].op = "provider" THEN calls[j].arg ELSE calls[j].arg.client.provider
GivenRequest ==
    LET j == CHOOSE j \in DOMAIN calls :
                calls[j].op \in {"request", "PreHandler::new", "from_client", "handler"}
    IN CASE calls[j].op = "from_client" -> calls[j].arg.request.body
         [] calls[j].op = "handler" -> calls[j].arg.raw
         [] OTHER -> calls[j].arg.body

\* C14: awaiting a builder moves it into the call, which calls the handler of
\* its request once, with the owner given to owner() (or the client's), the
\* provider given to provider() (or the client's) and the header map the
\* builder had; no builder is left to call or await again.
C14_ContextAsSet ==
    /\ Len(handled) = Cardinality(Awaited)
    /\ Len(handled) <= 1
    /\ \A i \in Awaited :
          /\ i = Len(calls)
          /\ builder = NoBuilder
          /\ reply # NoReply
          /\ handled[1].request = calls[i].on.request
          /\ handled[1].request.body = GivenRequest
          /\ handled[1].ctx.owner = GivenOwner
          /\ handled[1].ctx.provider = GivenProvider
          /\ handled[1].ctx.headers = calls[i].on.headers
    /\ builder = NoBuilder =>
          ~ENABLED (\/ \E by \in {"handle", "into_future"} : CallHandle(by)
                    \/ \E h \in HeaderMaps : CallHeaders(h)
                    \/ \E o \in Owners : CallOwner(o)
                    \/ \E p \in Providers : CallProvider(p) \/ CallPreProvider(p)
                    \/ \E r \in HandlerRequests : CallRequest(r))

C14_Witness ==
    /\ Len(handled) = 1
    /\ reply.kind = "ok"
    /\ Times("from_client") = 1
    /\ Times("headers") = 1
    /\ handled[1].ctx.headers = {<<"accept", "json">>, <<"x-id", "7">>}
    /\ handled[1].ctx.owner = "nz"

\* C15: when headers() was never called, the builder's header map is empty all
\* the way, and so is the header map of the Context the handler gets.
C15_HeadersDefaultEmpty ==
    Times("headers") = 0 =>
       /\ builder.headers = {}
       /\ \A i \in DOMAIN calls : calls[i].on.headers = {}
       /\ \A i \in DOMAIN handled : handled[i].ctx.headers = {}

C15_Witness ==
    /\ Times("headers") = 0
    /\ Times("PreHandler::new") = 1
    /\ Len(handled) = 1
    /\ handled[1].ctx.headers = {}

\* The header map given to the last headers() call.
GivenHeaders ==
    LET at == {j \in DOMAIN calls : calls[j].op = "headers"}
    IN calls[CHOOSE j \in at : \A k \in at : k <= j].arg

\* C24 (as claimed): owner(), provider() and request() hand on the header map
\* of the builder they are called on, so that the Context of the handler has
\* the header map of the last headers() call, whatever the order of the calls.
C24_HeadersKept ==
    /\ \A i \in DOMAIN calls :
          (calls[i].op \in {"owner", "provider", "request"} /\ i < Len(calls))
             => calls[i + 1].on.headers = calls[i].on.headers
    /\ \A i \in DOMAIN handled :
          Times("headers") > 0 => handled[i].ctx.headers = GivenHeaders

\* C16: when the raw input does not decode, handler() returns the error and no
\* PreHandler exists; nothing is called after it, neither the constructor of
\* the provider, nor provider(), owner() or the handler of the message.
C16_DecodeFirst ==
    \A i \in DOMAIN calls :
       (calls[i].op = "handler" /\ ~calls[i].arg.decodes) =>
          /\ reply = [kind |-> "err", err |-> "decode"]
          /\ builder = NoBuilder
          /\ Len(calls) = 1
          /\ handled = <<>>

C16_Witness ==
    /\ Len(calls) = 1
    /\ calls[1].op = "handler"
    /\ ~calls[1].arg.decodes
    /\ reply.err = "decode"

----------------------------------------------------------------------------
(* Required environment variables: the claims *)

\* The names in the message of the panic: what stands between the separators.
Named == [i \in 1..(Len(ensured.msg) \div 2) |-> ensured.msg[2 * i]]

\* The positions of the list where a variable that is unset is declared first.
FirstUnset ==
    {i \in DOMAIN listed :
        /\ env[listed[i]] = "unset"
        /\ \A j \in 1..(i - 1) : listed[j] # listed[i]}

\* C19 (as claimed): ensure_env! panics exactly when a listed variable is unset,
\* and the message names the unset variables of the list, each once and in the
\* order of the list, and no variable that is set.
C19_MissingListed ==
    ensured.done =>
       /\ ensured.panic <=> (\E i \in DOMAIN listed : env[listed[i]] = "unset")
       /\ Named = SelectSeq(listed, LAMBDA var : env[var] = "unset")
       /\ Len(Named) = Cardinality(FirstUnset)
       /\ \A i \in DOMAIN Named : env[Named[i]] = "unset"

----------------------------------------------------------------------------
(* Start of the runtime: the claims *)

Exited(h) == server[h] \in {"ok", "err"}

C17_Safety ==
    /\ entry.phase \in {"connecting", "linked"} =>
          \A h \in DOMAIN server : server[h] = "idle"
    /\ entry.phase = "serving" => \A h \in DOMAIN server : server[h] = "running"
    /\ \A h \in DOMAIN server :
          Exited(h) =>
             /\ entry = Returned(server[h], h, IF server[h] = "err" THEN "run" ELSE "none")
             /\ \A g \in DOMAIN server : g # h => server[g] = "cancelled"
             /\ config[h] = "default" => server[h] = "ok"
    /\ (\E h \in DOMAIN server : server[h] = "cancelled") =>
          \E h \in DOMAIN server : Exited(h)

\* C17: the entry procedure starts the run() of every host together; when the
\* first of them completes, with Ok or with an error, all the others are
\* cancelled and the entry procedure returns what that run completed with,
\* its error if it is one; no host is cancelled before one has completed. A
\* host with the default run is no exception: its run completes with Ok(())
\* once it is started, so the entry procedure of a configuration with such a
\* host returns.
C17_FirstExit ==
    /\ []C17_Safety
    /\ (entry.phase = "serving" /\ \E h \in DOMAIN config : config[h] = "default")
          ~> (entry.phase = "returned")

C17_Witness ==
    /\ Len(config) = 2
    /\ config[1] = "own" /\ config[2] = "default"
    /\ server[2] = "ok" /\ server[1] = "cancelled"
    /\ entry = Returned("ok", 2, "none")

\* A connect() that did not return a backend.
ConnectFailed(h) == backend[h].options = "err" \/ backend[h].result = "connect_with"

\* C18: the State exists, and a host has been started, only when the connect()
\* of every configured backend has returned a backend; when a connect() has
\* failed, the entry procedure has returned its error, it is the only one that
\* failed, there is no State and no host has been started.
C18_StartupOrder ==
    /\ state =>
          \A h \in DOMAIN backend :
             backend[h].options = "ok" /\ backend[h].result = "ok"
    /\ (\E h \in DOMAIN server : server[h] # "idle") => state
    /\ \A h \in DOMAIN backend :
          ConnectFailed(h) =>
             /\ entry = Returned("err", h, backend[h].result)
             /\ backend[h].result \in {"from_env", "connect_with"}
             /\ \A g \in DOMAIN backend : ConnectFailed(g) => g = h
             /\ ~state
             /\ \A g \in DOMAIN server : server[g] = "idle"

C18_Witness ==
    /\ Len(config) = 2
    /\ backend[1].result = "ok"
    /\ backend[2].result = "connect_with"
    /\ entry = Returned("err", 2, "connect_with")
    /\ ~state

\* C20: connect() calls connect_with only with the options from_env returned,
\* and then once; when from_env fails, connect() returns its error and
\* connect_with is not called; otherwise connect() returns what connect_with
\* returned.
C20_ConnectDefault ==
    \A h \in DOMAIN backend :
       LET b == backend[h] IN
       /\ b.connect_with <= 1
       /\ b.connect_with = 1 <=> b.options = "ok"
       /\ b.options = "err" =>
             b.result = "from_env" /\ b.st = "failed" /\ b.connect_with = 0
       /\ b.result \in {"ok", "connect_with"} => b.options = "ok"
       /\ b.result = "from_env" => b.options = "err"

C20_Witness ==
    \E h, g \in DOMAIN backend :
       /\ backend[h].result = "from_env" /\ backend[h].connect_with = 0
       /\ backend[g].result = "ok" /\ backend[g].connect_with = 1

----------------------------------------------------------------------------
(* Publisher: the claims *)

\* The calls of send that returned Ok.
Sent == SelectSeq(sends, LAMBDA c : c.result = "ok")

\* C23 (as claimed): what the guest's send hands the broker is the caller's
\* message on the caller's topic: one message for each send that returned Ok,
\* with the payload and the headers of the Message given to send.
C23_SameMessage ==
    /\ Len(broker) = Len(Sent)
    /\ \A i \in DOMAIN broker :
          /\ broker[i].topic = Sent[i].topic
          /\ broker[i].message.data = Sent[i].message.payload
          /\ broker[i].message.metadata = Sent[i].message.headers

----------------------------------------------------------------------------
(* Telemetry: the claims *)

\* C27 (as claimed): a call of init() returns Ok(None) only after a call that
\* returned Some(ExitGuard); and when the calls made so far have all failed,
\* TRACING and METRICS hold no provider, so that the next call initialises
\* again.
C27_AllOrNothing ==
    /\ \A i \in DOMAIN initLog :
          initLog[i].returned = "None" =>
             \E j \in 1..(i - 1) : initLog[j].returned = "Some"
    /\ ((\A t \in DOMAIN initPc : initPc[t] = "idle")
        /\ (\A i \in DOMAIN initLog : initLog[i].returned # "Some"))
          => (TRACING = "unset" /\ METRICS = "unset")

----------------------------------------------------------------------------
(* Rows: the claims *)

\* The fields of the row with the name of the column fetched, by position.
Named_col == {i \in DOMAIN row : row[i].name = fetchCall.col}
FirstNamed == row[CHOOSE i \in Named_col : \A j \in Named_col : i <= j].value
KindOfT ==
    CASE fetchCall.T = "bool" -> "Boolean"
      [] fetchCall.T = "i32" -> "Int32"
      [] fetchCall.T = "String" -> "Str"

----------------------------------------------------------------------------
(* Filters: the claims *)

RECURSIVE Chain(_, _, _)
\* The first n of the expressions es joined by op from left to right:
\* ((e1 op e2) op e3) ..
Chain(es, n, op) ==
    IF n = 1 THEN es[1]
    ELSE [op |-> op, left |-> Chain(es, n - 1, op), right |-> es[n]]

\* The converted filters of the list of an And or an Or.
Converted ==
    [i \in DOMAIN filter.filters |-> into_expr(filter.filters[i], default_table)]

\* C30: And over the empty list converts to the constant true and Or over the
\* empty list to the constant false; over a list that is not empty the result
\* joins the converted filters of the list with `and` (with `or`) from left
\* to right in the order of the list, and for a list of one it is the
\* converted filter itself.
C30_Combinators ==
    (expr # NoExpr /\ filter.tag \in {"And", "Or"}) =>
       LET op == IF filter.tag = "And" THEN "and" ELSE "or"
           n == Len(filter.filters)
       IN /\ n = 0 => expr = [op |-> "value", value |-> (filter.tag = "And")]
          /\ n = 1 => expr = Converted[1]
          /\ n > 0 => expr = Chain(Converted, n, op)

C30_Witness ==
    /\ filter = [tag |-> "And", filters |->
                   <<[tag |-> "Eq", tbl |-> "None", col |-> "a", val |-> "1"],
                     [tag |-> "Or", filters |-> <<>>],
                     [tag |-> "IsNull", tbl |-> "u", col |-> "b", val |-> "none"]>>]
    /\ expr = [op |-> "and",
               left |-> [op |-> "and",
                         left |-> [op |-> "eq", col |-> <<"t", "a">>, val |-> "1"],
                         right |-> [op |-> "value", value |-> FALSE]],
               right |-> [op |-> "is_null", col |-> <<"u", "b">>, val |-> "none"]]

====
